---- MODULE Spec2Model ----
(***************************************************************************)
(* Model of zerospeech2021/cli/evaluate.py: one run of the `evaluate`      *)
(* command, from argument binding to process exit.                         *)
(*                                                                         *)
(* The state is the command's local variables (kinds, dataset, submission),*)
(* the part of the file system it touches (the staging temporary           *)
(* directory, the output directory and the score files in it), the atexit  *)
(* registry, the two output streams and the exit code.  The four track     *)
(* scorers (lexical, semantic, syntactic, phonetic .evaluate) and          *)
(* DataFrame.to_csv are external: a call to one of them either returns or  *)
(* raises, and the model takes both outcomes.                              *)
(***************************************************************************)
EXTENDS Integers, Sequences, FiniteSets, TLC

VARIABLES
    environ,         \* value of ZEROSPEECH2021_TEST_GOLD, or Unset
    arg_dataset,     \* positional DATASET argument
    arg_submission,  \* positional SUBMISSION argument
    arg_output,      \* the --output-directory option
    no_flags,        \* the set of tracks whose --no-<track> flag is given
    meta,            \* what the submission holds as metadata record
    absent,          \* a track whose gold and submission sub-trees are absent
    out_dir,         \* state of the --output-directory path ("created" once
                     \* this run has made it)
    pc,              \* position of the run in evaluate()
    kinds,           \* local `kinds`
    dataset,         \* local `dataset`
    submission,      \* local `submission`: [path, type]
    tmp,             \* state of the directory made by tempfile.mkdtemp()
    atexit,          \* the atexit registry, in registration order
    ti,              \* index of the track the dispatch is at (1..5)
    ki,              \* index into kinds inside an eval_<track> loop
    si,              \* index of the next table to write for (track, kind)
    calls,           \* the calls made to the track scorers, in order
    files,           \* the files written in the output directory, in order
    disk,            \* the score files on disk: a set of [path, content]
    meta_reads,      \* how many times this run has opened meta.yaml
    run,             \* which run over these inputs this is (1 = the first)
    prev,            \* what the previous run over these inputs left, or NoRun
    touched,         \* paths the run resolved, tested or opened
    stdout,          \* lines printed on standard output
    stderr,          \* lines printed on standard error
    exc,             \* class of the exception in flight, or "none"
    fail_at,         \* the step that raised it, or "none"
    exit_code        \* process exit status once pc = "exited"

vars == << environ, arg_dataset, arg_submission, arg_output, no_flags, meta,
           absent, out_dir, pc, kinds, dataset, submission, tmp, atexit, ti,
           ki, si, calls, files, disk, meta_reads, run, prev, touched, stdout,
           stderr, exc, fail_at, exit_code >>

inputs == << environ, arg_dataset, arg_submission, arg_output, no_flags, meta,
             absent >>

(***************************************************************************)
(* The file system the run finds.                                          *)
(***************************************************************************)
Unset == "<unset>"

\* the process runs in /work; relative arguments are relative to it
Resolve(p) ==
    CASE p = "../data/gold" -> "/data/gold"
      [] p = "sub"          -> "/work/sub"
      [] p = "out"          -> "/work/out"
      [] p = "sub/scores"   -> "/work/sub/scores"
      [] OTHER              -> p

FsKind(p) ==
    CASE p = "/data/gold"      -> "dir"
      [] p = "/data/test_gold" -> "dir"
      [] p = "/work/sub"       -> "dir"
      [] p = "/work/sub.zip"   -> "zip"
      [] p = "/work/bad.zip"   -> "truncated_zip"
      [] p = "/work/notes.txt" -> "file"
      [] p = "/data/README"    -> "file"
      [] OTHER                 -> "missing"

Exists(p) == FsKind(Resolve(p)) # "missing"
is_dir(p) == FsKind(Resolve(p)) = "dir"
is_file(p) == FsKind(Resolve(p)) \in {"zip", "truncated_zip", "file"}
\* zipfile.is_zipfile looks for the end-of-central-directory record only
is_zipfile(p) == FsKind(Resolve(p)) \in {"zip", "truncated_zip"}
CanExtract(p) == FsKind(Resolve(p)) = "zip"

TmpDir == "/tmp/tmpz2021"

DatasetArgs == {"../data/gold", "/data/README", "/data/none"}
EnvValues == {Unset, "/data/test_gold", "/secret/none"}
SubmissionArgs == {"sub", "/work/sub.zip", "/work/bad.zip",
                   "/work/notes.txt", "/work/none"}
OutDirStates == {"exists", "creatable", "uncreatable"}
\* where --output-directory points: beside the submission, or inside it
OutputArgs == {"out", "sub/scores"}

NoRun == [files |-> << "<none>" >>]

\* variant: semantic is dispatched before lexical
Tracks_Reordered == << "semantic", "lexical", "syntactic", "phonetic" >>

(***************************************************************************)
(* Tracks, in the order evaluate() dispatches them.                        *)
(***************************************************************************)
Tracks == << "lexical", "semantic", "syntactic", "phonetic" >>
TrackSet == {Tracks[i] : i \in 1..Len(Tracks)}

\* meta.yaml as the submission holds it
MetaStates == {"ok", "missing", "in_semantic", "malformed", "bad_bytes",
               "no_metric", "no_pooling"}

Range(s) == {s[i] : i \in 1..Len(s)}


(***************************************************************************)
(* Initial state: the arguments are bound, nothing has run.                *)
(***************************************************************************)
\* the state of a run before its first statement
InitRun ==
    /\ pc = "start"
    /\ kinds = << >>
    /\ dataset = arg_dataset
    /\ submission = [path |-> arg_submission, type |-> "Path"]
    /\ tmp = "none"
    /\ atexit = << >>
    /\ ti = 1
    /\ ki = 1
    /\ si = 1
    /\ calls = << >>
    /\ files = << >>
    /\ disk = {}
    /\ meta_reads = 0
    /\ run = 1
    /\ prev = NoRun
    /\ touched = {}
    /\ stdout = << >>
    /\ stderr = << >>
    /\ exc = "none"
    /\ fail_at = "none"
    /\ exit_code = 0

Init ==
    /\ environ \in EnvValues
    /\ arg_dataset \in DatasetArgs
    /\ arg_submission \in SubmissionArgs
    /\ arg_output = "out"
    /\ no_flags \in SUBSET TrackSet
    /\ meta \in MetaStates
    /\ absent \in TrackSet \cup {"none"}
    /\ out_dir \in OutDirStates
    /\ InitRun

Touch(root, track, path) == [root |-> root, track |-> track, path |-> path]

\* `raise`: control leaves the try body with an exception of class e
Raise(e, where) ==
    /\ exc' = e
    /\ fail_at' = where
    /\ pc' = "raised"

locals == << kinds, dataset, submission >>
staging == << tmp, atexit >>
loop == << ti, ki, si >>
streams == << stdout, stderr >>
effects == << calls, files, disk, meta_reads >>
history == << run, prev >>

\* variant: `test` is appended but the positional dataset is kept
ResolveReferences_KeepDataset ==
    /\ pc = "start"
    /\ kinds' = IF environ # Unset THEN << "dev", "test" >> ELSE << "dev" >>
    /\ dataset' = dataset
    /\ pc' = "check_dataset"
    /\ UNCHANGED << inputs, history,
                    out_dir, submission, staging, loop, effects,
                    touched, streams, exc, fail_at, exit_code >>

(***************************************************************************)
(* evaluate(), lines 113-116: the split list and the gold root.            *)
(***************************************************************************)
ResolveReferences ==
    /\ pc = "start"
    /\ IF environ # Unset
       THEN /\ kinds' = << "dev", "test" >>
            /\ dataset' = environ
       ELSE /\ kinds' = << "dev" >>
            /\ dataset' = dataset
    /\ pc' = "check_dataset"
    /\ UNCHANGED << inputs, history,
                    out_dir, submission, staging, loop, effects,
                    touched, streams, exc, fail_at, exit_code >>

\* variant: the gold root is resolved when it can be, but never checked
ValidateDataset_NoCheck ==
    /\ pc = "check_dataset"
    /\ touched' = touched \cup {Touch(dataset, "none", Resolve(dataset))}
    /\ dataset' = Resolve(dataset)
    /\ pc' = "check_submission"
    /\ UNCHANGED << inputs, history,
                    out_dir, kinds, submission, staging, loop,
                    effects, streams, exc, fail_at, exit_code >>

(***************************************************************************)
(* evaluate(), lines 119-121: dataset.resolve(strict=True), is_dir().      *)
(***************************************************************************)
ValidateDataset ==
    /\ pc = "check_dataset"
    /\ touched' = touched \cup {Touch(dataset, "none", Resolve(dataset))}
    /\ IF ~Exists(dataset)
       THEN /\ Raise("FileNotFoundError", "dataset")
            /\ UNCHANGED dataset
       ELSE IF ~is_dir(dataset)
       THEN /\ Raise("ValueError", "dataset")
            /\ dataset' = Resolve(dataset)
       ELSE /\ dataset' = Resolve(dataset)
            /\ pc' = "check_submission"
            /\ UNCHANGED << exc, fail_at >>
    /\ UNCHANGED << inputs, history,
                    out_dir, kinds, submission, staging, loop,
                    effects, streams, exit_code >>

\* variant: a directory submission is staged like an archive
ResolveSubmission_StageAll ==
    /\ pc = "check_submission"
    /\ touched' = touched \cup
           {Touch(submission.path, "none", Resolve(submission.path))}
    /\ IF ~Exists(submission.path)
       THEN /\ Raise("FileNotFoundError", "submission")
            /\ UNCHANGED submission
       ELSE /\ submission' = [submission EXCEPT !.path = Resolve(@)]
            /\ IF is_zipfile(submission.path) \/ is_dir(submission.path)
               THEN /\ pc' = "mkdtemp"
                    /\ UNCHANGED << exc, fail_at >>
               ELSE Raise("ValueError", "submission")
    /\ UNCHANGED << inputs, history,
                    out_dir, kinds, dataset, staging, loop, effects,
                    streams, exit_code >>

\* variant: the `elif not submission.is_dir(): raise` branch is missing
ResolveSubmission_NoElif ==
    /\ pc = "check_submission"
    /\ touched' = touched \cup
           {Touch(submission.path, "none", Resolve(submission.path))}
    /\ IF ~Exists(submission.path)
       THEN /\ Raise("FileNotFoundError", "submission")
            /\ UNCHANGED submission
       ELSE /\ submission' = [submission EXCEPT !.path = Resolve(@)]
            /\ pc' = IF is_file(submission.path) /\ is_zipfile(submission.path)
                     THEN "mkdtemp" ELSE "check_output"
            /\ UNCHANGED << exc, fail_at >>
    /\ UNCHANGED << inputs, history,
                    out_dir, kinds, dataset, staging, loop, effects,
                    streams, exit_code >>

(***************************************************************************)
(* evaluate(), lines 124-125 and 134-136: submission.resolve(strict=True)  *)
(* and the choice between archive, directory and neither.                  *)
(***************************************************************************)
ResolveSubmission ==
    /\ pc = "check_submission"
    /\ touched' = touched \cup
           {Touch(submission.path, "none", Resolve(submission.path))}
    /\ IF ~Exists(submission.path)
       THEN /\ Raise("FileNotFoundError", "submission")
            /\ UNCHANGED submission
       ELSE /\ submission' = [submission EXCEPT !.path = Resolve(@)]
            /\ IF is_file(submission.path) /\ is_zipfile(submission.path)
               THEN /\ pc' = "mkdtemp"
                    /\ UNCHANGED << exc, fail_at >>
               ELSE IF ~is_dir(submission.path)
               THEN Raise("ValueError", "submission")
               ELSE /\ pc' = "check_output"
                    /\ UNCHANGED << exc, fail_at >>
    /\ UNCHANGED << inputs, history,
                    out_dir, kinds, dataset, staging, loop, effects,
                    streams, exit_code >>

(***************************************************************************)
(* evaluate(), line 127: submission_unzip = tempfile.mkdtemp()             *)
(***************************************************************************)
StageMkdtemp ==
    /\ pc = "mkdtemp"
    /\ tmp' = "exists"
    /\ pc' = "register"
    /\ UNCHANGED << inputs, history,
                    out_dir, locals, atexit, loop, effects, touched,
                    streams, exc, fail_at, exit_code >>

\* variant: the removal is not registered
StageRegister_Forgotten ==
    /\ pc = "register"
    /\ pc' = "extract"
    /\ UNCHANGED << inputs, history,
                    out_dir, locals, staging, loop, effects, touched,
                    streams, exc, fail_at, exit_code >>

(***************************************************************************)
(* evaluate(), line 128: atexit.register(shutil.rmtree, submission_unzip)  *)
(***************************************************************************)
StageRegister ==
    /\ pc = "register"
    /\ atexit' = Append(atexit, TmpDir)
    /\ pc' = "extract"
    /\ UNCHANGED << inputs, history,
                    out_dir, locals, tmp, loop, effects, touched,
                    streams, exc, fail_at, exit_code >>

(***************************************************************************)
(* evaluate(), lines 131-133: extractall, then `submission` is rebound to  *)
(* the str that mkdtemp returned.                                          *)
(***************************************************************************)
StageExtract ==
    /\ pc = "extract"
    /\ stdout' = Append(stdout, "Unzip submission")
    /\ IF CanExtract(submission.path)
       THEN /\ submission' = [path |-> TmpDir, type |-> "str"]
            /\ pc' = "check_output"
            /\ UNCHANGED << exc, fail_at >>
       ELSE /\ Raise("BadZipFile", "extract")
            /\ UNCHANGED submission
    /\ UNCHANGED << inputs, history,
                    out_dir, kinds, dataset, staging, loop, effects,
                    touched, stderr, exit_code >>

(***************************************************************************)
(* evaluate(), lines 138-139: the output directory.                        *)
(***************************************************************************)
MakeOutputDirectory ==
    /\ pc = "check_output"
    /\ IF out_dir = "exists"
       THEN /\ pc' = "dispatch"
            /\ UNCHANGED << out_dir, exc, fail_at >>
       ELSE IF out_dir = "creatable"
       THEN /\ out_dir' = "created"
            /\ pc' = "dispatch"
            /\ UNCHANGED << exc, fail_at >>
       ELSE /\ Raise("OSError", "output")
            /\ UNCHANGED out_dir
    /\ UNCHANGED << inputs, history,
                    locals, staging, loop, effects, touched, streams,
                    exit_code >>

(***************************************************************************)
(* The paths and names the four eval_<track> functions derive.             *)
(***************************************************************************)
\* pathlib's `/`: defined when the left operand is a Path, not when it is
\* a str (str / str raises TypeError)
CanDiv(v) == v.type = "Path"

\* variant: the gold files of dev are used for every split
GoldArgs_DevOnly(t, kind) ==
    CASE t = "lexical"   -> << dataset \o "/lexical/dev/gold.csv" >>
      [] t = "semantic"  -> << dataset \o "/semantic/dev/gold.csv",
                               dataset \o "/semantic/dev/pairs.csv" >>
      [] t = "syntactic" -> << dataset \o "/syntactic/dev/gold.csv" >>
      [] t = "phonetic"  -> << dataset \o "/phonetic/abx_features" >>

\* gold locations passed to the scorer of track t for split kind
GoldArgs(t, kind) ==
    CASE t = "lexical"   -> << dataset \o "/lexical/" \o kind \o "/gold.csv" >>
      [] t = "semantic"  -> << dataset \o "/semantic/" \o kind \o "/gold.csv",
                               dataset \o "/semantic/" \o kind \o "/pairs.csv" >>
      [] t = "syntactic" -> << dataset \o "/syntactic/" \o kind \o "/gold.csv" >>
      [] t = "phonetic"  -> << dataset \o "/phonetic/abx_features" >>

\* submission location passed to the scorer of track t for split kind
SubmissionArg(t, kind) ==
    CASE t = "lexical"   -> submission.path \o "/lexical/" \o kind \o ".txt"
      [] t = "semantic"  -> submission.path \o "/semantic/" \o kind
      [] t = "syntactic" -> submission.path \o "/syntactic/" \o kind \o ".txt"
      [] t = "phonetic"  -> submission.path \o "/phonetic/" \o kind

MetaPath == submission.path \o "/meta.yaml"

\* variant: the third lexical table is written under the name of the first
Stratifications_CopyPaste(t) ==
    CASE t = "lexical"   -> << "_by_pair", "_by_frequency", "_by_pair" >>
      [] t = "semantic"  -> << "" >>
      [] t = "syntactic" -> << "_by_pair", "_by_type" >>
      [] t = "phonetic"  -> << >>

\* the tables the scorer of track t returns to the driver, by the suffix of
\* the file each is written to (phonetic returns none)
Stratifications(t) ==
    CASE t = "lexical"   -> << "_by_pair", "_by_frequency", "_by_length" >>
      [] t = "semantic"  -> << "" >>
      [] t = "syntactic" -> << "_by_pair", "_by_type" >>
      [] t = "phonetic"  -> << >>

OutputName(t, kind, strat) == "score_" \o t \o "_" \o kind \o strat \o ".csv"

\* what phonetic.evaluate(features_location, abx_data, output, kind) writes
\* by itself into the output directory
PhoneticOutputs(kind) == << "score_phonetic_" \o kind \o ".csv" >>

\* variant: meta['parameters']['semantic'].get(..., default) for the two keys
MetaError_Defaults ==
    CASE meta \in {"missing", "in_semantic"}   -> "FileNotFoundError"
      [] meta = "bad_bytes"                    -> "UnicodeDecodeError"
      [] meta = "malformed"                    -> "YAMLError"
      [] OTHER                                 -> "none"

\* outcome of yaml.safe_load(open(meta.yaml).read()) and the two lookups
MetaError ==
    CASE meta \in {"missing", "in_semantic"}   -> "FileNotFoundError"
      [] meta = "bad_bytes"                    -> "UnicodeDecodeError"
      [] meta = "malformed"                    -> "YAMLError"
      [] meta \in {"no_metric", "no_pooling"}  -> "KeyError"
      [] OTHER                                 -> "none"

\* what a track scorer can do: return its tables, or raise.  A scorer is a
\* function of the files it is given: run again over the same inputs, it
\* does what it did in the previous run.
ScorerOutcomes(t) ==
    IF prev # NoRun
    THEN {prev.calls[i].result : i \in {j \in 1..Len(prev.calls) :
             prev.calls[j].track = t /\ prev.calls[j].kind = kinds[ki]}}
    ELSE IF t = absent THEN {"ValueError", "RuntimeError"}
    ELSE {"ok", "ValueError", "RuntimeError"}

\* the path of an output file: output / f'score_...'
OutputPath(name) == arg_output \o "/" \o name

\* the table of track t, split kind, written to the i-th file of (t, kind)
Table(t, kind, i) ==
    [scorer |-> t, gold |-> GoldArgs(t, kind), sub |-> SubmissionArg(t, kind),
     table |-> Stratifications(t)[i]]

\* variant: the file is opened for appending (mode='a')
to_csv_Append(d, path, table) ==
    IF \E e \in d : e.path = path
    THEN {IF e.path = path
          THEN [path |-> path, content |-> Append(e.content, table)]
          ELSE e : e \in d}
    ELSE d \cup {[path |-> path, content |-> << table >>]}

\* DataFrame.to_csv(path, ...): the file at path is created or replaced
to_csv(d, path, table) ==
    {e \in d : e.path # path} \cup {[path |-> path, content |-> << table >>]}

\* the output directory after phonetic.evaluate(..., output, kind) returned
RECURSIVE PhoneticWrites(_, _, _)
PhoneticWrites(d, names, kind) ==
    IF names = << >> THEN d
    ELSE PhoneticWrites(
             {e \in d : e.path # OutputPath(Head(names))} \cup
                 {[path |-> OutputPath(Head(names)),
                   content |-> << [scorer |-> "phonetic", kind |-> kind] >>]},
             Tail(names), kind)

\* what DataFrame.to_csv can do; the environment of a re-run is that of
\* the previous run
WriteOutcomes ==
    IF prev # NoRun
    THEN IF OutputName(Tracks[ti], kinds[ki],
                       Stratifications(Tracks[ti])[si]) \in Range(prev.files)
         THEN {"ok"} ELSE {"OSError"}
    ELSE {"ok", "OSError"}

\* variant: the skip flag of a track is not honoured
SkipTrack_Ignored ==
    /\ pc = "dispatch"
    /\ ti <= Len(Tracks)
    /\ Tracks[ti] \in no_flags
    /\ pc' = "eval"
    /\ UNCHANGED << inputs, history,
                    out_dir, locals, staging, loop, effects, touched,
                    streams, exc, fail_at, exit_code >>

(***************************************************************************)
(* evaluate(), lines 141-151: the four `if not no_<track>` tests.          *)
(***************************************************************************)
SkipTrack ==
    /\ pc = "dispatch"
    /\ ti <= Len(Tracks)
    /\ Tracks[ti] \in no_flags
    /\ ti' = ti + 1
    /\ UNCHANGED << inputs, history,
                    out_dir, pc, locals, staging, ki, si, effects,
                    touched, streams, exc, fail_at, exit_code >>

EnterTrack ==
    /\ pc = "dispatch"
    /\ ti <= Len(Tracks)
    /\ Tracks[ti] \notin no_flags
    /\ pc' = "eval"
    /\ UNCHANGED << inputs, history,
                    out_dir, locals, staging, loop, effects, touched,
                    streams, exc, fail_at, exit_code >>

(***************************************************************************)
(* eval_<track>: the statements before the loop over kinds.                *)
(*   eval_semantic, lines 40-42: load metric and pooling from meta.yaml.   *)
(*   eval_phonetic, line 75: abx_data.                                     *)
(***************************************************************************)
EvalBegin(t) ==
    /\ pc = "eval"
    /\ Tracks[ti] = t
    /\ IF t = "semantic"
       THEN IF ~CanDiv(submission)
            THEN /\ Raise("TypeError", t)
                 /\ UNCHANGED << touched, ki, meta_reads >>
            ELSE /\ touched' = touched \cup
                        {Touch(submission.path, t, MetaPath)}
                 /\ meta_reads' = meta_reads + 1
                 /\ IF MetaError # "none"
                    THEN /\ Raise(MetaError, t)
                         /\ UNCHANGED ki
                    ELSE /\ ki' = 1
                         /\ pc' = "loop"
                         /\ UNCHANGED << exc, fail_at >>
       ELSE /\ ki' = 1
            /\ pc' = "loop"
            /\ UNCHANGED << touched, meta_reads, exc, fail_at >>
    /\ UNCHANGED << inputs, history,
                    out_dir, locals, staging, ti, si, calls, files, disk,
                    streams, exit_code >>

(***************************************************************************)
(* eval_<track>: one turn of `for kind in kinds` up to the scorer's        *)
(* return: the print, the two locations, <track>.evaluate(...).            *)
(***************************************************************************)
EvalCall(t) ==
    /\ pc = "loop"
    /\ Tracks[ti] = t
    /\ ki <= Len(kinds)
    /\ stdout' = Append(stdout, "Evaluating " \o t \o " " \o kinds[ki])
    /\ IF ~CanDiv(submission)
       THEN /\ Raise("TypeError", t)
            /\ UNCHANGED << calls, files, disk, touched, ki, si >>
       ELSE \E outcome \in ScorerOutcomes(t) :
            /\ calls' = Append(calls,
                   [track |-> t, kind |-> kinds[ki],
                    gold |-> GoldArgs(t, kinds[ki]),
                    sub |-> SubmissionArg(t, kinds[ki]),
                    result |-> outcome])
            /\ touched' = touched
                   \cup {Touch(dataset, t, g) :
                            g \in Range(GoldArgs(t, kinds[ki]))}
                   \cup {Touch(submission.path, t,
                               SubmissionArg(t, kinds[ki]))}
            /\ IF outcome # "ok"
               THEN /\ Raise(outcome, t)
                    /\ UNCHANGED << files, disk, ki, si >>
               ELSE IF t = "phonetic"
               THEN /\ files' = files \o PhoneticOutputs(kinds[ki])
                    /\ disk' = PhoneticWrites(disk,
                                   PhoneticOutputs(kinds[ki]), kinds[ki])
                    /\ ki' = ki + 1
                    /\ UNCHANGED << pc, si, exc, fail_at >>
               ELSE /\ si' = 1
                    /\ pc' = "write"
                    /\ UNCHANGED << files, disk, ki, exc, fail_at >>
    /\ UNCHANGED << inputs, history,
                    out_dir, locals, staging, ti, meta_reads, stderr,
                    exit_code >>

\* variant: a failed to_csv is swallowed and the next table is written
EvalWrite_Swallow(t) ==
    /\ pc = "write"
    /\ Tracks[ti] = t
    /\ \E outcome \in WriteOutcomes :
        /\ files' = IF outcome = "ok"
                    THEN Append(files,
                        OutputName(t, kinds[ki], Stratifications(t)[si]))
                    ELSE files
        /\ disk' = IF outcome = "ok"
                   THEN to_csv(disk,
                       OutputPath(OutputName(t, kinds[ki],
                                             Stratifications(t)[si])),
                       Table(t, kinds[ki], si))
                   ELSE disk
        /\ IF si < Len(Stratifications(t))
           THEN /\ si' = si + 1
                /\ UNCHANGED << pc, ki >>
           ELSE /\ si' = 1
                /\ ki' = ki + 1
                /\ pc' = "loop"
    /\ UNCHANGED << inputs, history,
                    out_dir, locals, staging, ti, calls, meta_reads, touched,
                    streams, exc, fail_at, exit_code >>

(***************************************************************************)
(* eval_<track>: one <table>.to_csv(output / f'score_...csv', ...).        *)
(***************************************************************************)
EvalWrite(t) ==
    /\ pc = "write"
    /\ Tracks[ti] = t
    /\ \E outcome \in WriteOutcomes :
        IF outcome # "ok"
        THEN /\ Raise(outcome, t)
             /\ UNCHANGED << files, disk, ki, si >>
        ELSE /\ files' = Append(files,
                    OutputName(t, kinds[ki], Stratifications(t)[si]))
             /\ disk' = to_csv(disk,
                    OutputPath(OutputName(t, kinds[ki],
                                          Stratifications(t)[si])),
                    Table(t, kinds[ki], si))
             /\ IF si < Len(Stratifications(t))
                THEN /\ si' = si + 1
                     /\ UNCHANGED << pc, ki >>
                ELSE /\ si' = 1
                     /\ ki' = ki + 1
                     /\ pc' = "loop"
             /\ UNCHANGED << exc, fail_at >>
    /\ UNCHANGED << inputs, history,
                    out_dir, locals, staging, ti, calls, meta_reads, touched,
                    streams, exit_code >>

(***************************************************************************)
(* eval_<track>: the loop over kinds is exhausted, the function returns.   *)
(***************************************************************************)
EvalReturn(t) ==
    /\ pc = "loop"
    /\ Tracks[ti] = t
    /\ ki > Len(kinds)
    /\ ti' = ti + 1
    /\ ki' = 1
    /\ pc' = "dispatch"
    /\ UNCHANGED << inputs, history,
                    out_dir, locals, staging, si, effects, touched,
                    streams, exc, fail_at, exit_code >>

eval_lexical ==
    \/ EvalBegin("lexical")
    \/ EvalCall("lexical")
    \/ EvalWrite("lexical")
    \/ EvalReturn("lexical")

eval_semantic ==
    \/ EvalBegin("semantic")
    \/ EvalCall("semantic")
    \/ EvalWrite("semantic")
    \/ EvalReturn("semantic")

eval_syntactic ==
    \/ EvalBegin("syntactic")
    \/ EvalCall("syntactic")
    \/ EvalWrite("syntactic")
    \/ EvalReturn("syntactic")

eval_phonetic ==
    \/ EvalBegin("phonetic")
    \/ EvalCall("phonetic")
    \/ EvalReturn("phonetic")

(***************************************************************************)
(* The ways out of evaluate().                                             *)
(***************************************************************************)
\* variant: the handler matches the class ValueError itself only
IsValueError_Exact(e) == e = "ValueError"

\* ValueError and its subclasses (UnicodeDecodeError is one)
IsValueError(e) == e \in {"ValueError", "UnicodeDecodeError"}

\* the try body ran to its end: the command returns, the process exits 0
Finish ==
    /\ pc = "dispatch"
    /\ ti > Len(Tracks)
    /\ exit_code' = 0
    /\ pc' = "exit"
    /\ UNCHANGED << inputs, history,
                    out_dir, locals, staging, loop, effects, touched,
                    streams, exc, fail_at >>

\* variant: the handler removes what the run wrote before it exits
ExceptValueError_Rollback ==
    /\ pc = "raised"
    /\ IsValueError(exc)
    /\ stdout' = Append(stdout, "ERROR: " \o fail_at)
    /\ files' = << >>
    /\ disk' = {}
    /\ exit_code' = -1
    /\ pc' = "exit"
    /\ UNCHANGED << inputs, history,
                    out_dir, locals, staging, loop, calls, meta_reads,
                    touched, stderr, exc, fail_at >>

\* lines 152-154: except ValueError as error: print(...); sys.exit(-1)
ExceptValueError ==
    /\ pc = "raised"
    /\ IsValueError(exc)
    /\ stdout' = Append(stdout, "ERROR: " \o fail_at)
    /\ exit_code' = -1
    /\ pc' = "exit"
    /\ UNCHANGED << inputs, history,
                    out_dir, locals, staging, loop, effects, touched,
                    stderr, exc, fail_at >>

\* an exception of any other class passes the except clause: the
\* interpreter prints the traceback on stderr and exits with status 1
Uncaught ==
    /\ pc = "raised"
    /\ ~IsValueError(exc)
    /\ stderr' = Append(stderr, "Traceback: " \o exc)
    /\ exit_code' = 1
    /\ pc' = "exit"
    /\ UNCHANGED << inputs, history,
                    out_dir, locals, staging, loop, effects, touched,
                    stdout, exc, fail_at >>

\* interpreter shutdown runs the atexit registry: shutil.rmtree(dir)
RunAtexit ==
    /\ pc = "exit"
    /\ tmp' = IF TmpDir \in Range(atexit) /\ tmp = "exists"
              THEN "removed" ELSE tmp
    /\ pc' = "exited"
    /\ UNCHANGED << inputs, history,
                    out_dir, locals, atexit, loop, effects, touched,
                    streams, exc, fail_at, exit_code >>

Next ==
    \/ ResolveReferences
    \/ ValidateDataset
    \/ ResolveSubmission
    \/ StageMkdtemp
    \/ StageRegister
    \/ StageExtract
    \/ MakeOutputDirectory
    \/ SkipTrack
    \/ EnterTrack
    \/ eval_lexical
    \/ eval_semantic
    \/ eval_syntactic
    \/ eval_phonetic
    \/ Finish
    \/ ExceptValueError
    \/ Uncaught
    \/ RunAtexit

Spec == Init /\ [][Next]_vars

(***************************************************************************)
(* Running the command again with the same arguments, environment and      *)
(* file system, over the output directory the previous run left.           *)
(***************************************************************************)
MaxRuns == 2

Rerun ==
    /\ pc = "exited"
    /\ run < MaxRuns
    /\ run' = run + 1
    /\ prev' = [calls |-> calls, files |-> files, disk |-> disk,
                exit_code |-> exit_code]
    /\ out_dir' = IF out_dir = "created" THEN "exists" ELSE out_dir
    /\ pc' = "start"
    /\ kinds' = << >>
    /\ dataset' = arg_dataset
    /\ submission' = [path |-> arg_submission, type |-> "Path"]
    /\ tmp' = "none"
    /\ atexit' = << >>
    /\ ti' = 1
    /\ ki' = 1
    /\ si' = 1
    /\ calls' = << >>
    /\ files' = << >>
    /\ meta_reads' = 0
    /\ touched' = {}
    /\ stdout' = << >>
    /\ stderr' = << >>
    /\ exc' = "none"
    /\ fail_at' = "none"
    /\ exit_code' = 0
    /\ UNCHANGED << inputs, disk >>

\* the inputs of the runs that are repeated
InitRerun ==
    /\ environ \in EnvValues
    /\ arg_dataset \in DatasetArgs
    /\ arg_submission \in SubmissionArgs
    /\ arg_output = "out"
    /\ no_flags \in SUBSET TrackSet
    /\ meta \in {"ok", "no_pooling", "bad_bytes"}
    /\ absent \in {"none", "syntactic"}
    /\ out_dir \in OutDirStates
    /\ InitRun

NextRerun == Next \/ Rerun

SpecRerun == InitRerun /\ [][NextRerun]_vars

(***************************************************************************)
(* Runs whose output directory may lie inside the submission directory.    *)
(***************************************************************************)
InitOutput ==
    /\ environ \in {Unset, "/data/test_gold"}
    /\ arg_dataset \in {"../data/gold", "/data/none"}
    /\ arg_submission \in SubmissionArgs
    /\ arg_output \in OutputArgs
    /\ no_flags \in SUBSET TrackSet
    /\ meta \in {"ok", "bad_bytes"}
    /\ absent = "none"
    /\ out_dir \in OutDirStates
    /\ InitRun

SpecOutput == InitOutput /\ [][Next]_vars

(***************************************************************************)
(* Vocabulary of the properties.                                           *)
(***************************************************************************)
HasPrefix(f, p) == Len(f) >= Len(p) /\ SubSeq(f, 1, Len(p)) = p

IsPrefix(s, t) == Len(s) <= Len(t) /\ SubSeq(t, 1, Len(s)) = s

Exited == pc = "exited"

\* the files of track t among those written, in the order written
FilesOf(t) == SelectSeq(files, LAMBDA f : HasPrefix(f, "score_" \o t \o "_"))

CallsOf(t) == SelectSeq(calls, LAMBDA c : c.track = t)

ErrorLines(stream) ==
    Cardinality({i \in 1..Len(stream) : HasPrefix(stream[i], "ERROR: ")})

\* the files a full run of track t writes for the split list ks, in order
RECURSIVE TrackFiles(_, _)
TrackFiles(t, ks) ==
    IF ks = << >> THEN << >>
    ELSE (IF t = "phonetic"
          THEN PhoneticOutputs(Head(ks))
          ELSE [i \in 1..Len(Stratifications(t)) |->
                   OutputName(t, Head(ks), Stratifications(t)[i])])
         \o TrackFiles(t, Tail(ks))

ValidationSteps == {"dataset", "submission", "output"}

\* the gold root the run is to use
GoldRoot == IF environ # Unset THEN environ ELSE arg_dataset

(***************************************************************************)
(* C1: once the references are resolved, the split list is [dev] and the   *)
(* gold root the positional dataset when ZEROSPEECH2021_TEST_GOLD is       *)
(* unset; it is [dev, test] and the gold root the variable's value when    *)
(* it is set, every scorer is given gold locations under that root, and    *)
(* the positional dataset is neither validated nor read.                   *)
(***************************************************************************)
C1_ReferenceResolution ==
    pc # "start" =>
        /\ kinds = IF environ # Unset THEN << "dev", "test" >> ELSE << "dev" >>
        /\ Resolve(dataset) = Resolve(GoldRoot)
        /\ \A i \in 1..Len(calls) : \A j \in 1..Len(calls[i].gold) :
               HasPrefix(calls[i].gold[j], Resolve(GoldRoot) \o "/")
        /\ environ # Unset =>
               \A x \in touched :
                   /\ x.root \notin {arg_dataset, Resolve(arg_dataset)}
                   /\ ~HasPrefix(x.path, Resolve(arg_dataset))

\* the override is set, the positional dataset does not exist, and a scorer
\* has been called with gold under the override
C1_Witness ==
    /\ environ = "/data/test_gold"
    /\ arg_dataset = "/data/none"
    /\ kinds = << "dev", "test" >>
    /\ \E i \in 1..Len(calls) : calls[i].kind = "test"

(***************************************************************************)
(* C2: a submission given as a valid zip archive is, once staged, scored   *)
(* like a directory: with only the semantic track enabled and a metadata   *)
(* record in the archive, semantic.evaluate is called for dev on the       *)
(* extracted directory, and when the scorer and the write succeed the run  *)
(* has written score_semantic_dev.csv and exits with code 0.               *)
(***************************************************************************)
C2_ArchiveScoredLikeDirectory ==
    ( /\ Exited
      /\ CanExtract(arg_submission)
      /\ no_flags = TrackSet \ {"semantic"}
      /\ meta \in {"ok", "in_semantic"}
      /\ fail_at \notin {"dataset", "output"} )
    => /\ \E i \in 1..Len(calls) :
            /\ calls[i].track = "semantic"
            /\ calls[i].kind = "dev"
            /\ calls[i].sub = TmpDir \o "/semantic/dev"
       /\ exc = "none" =>
            /\ "score_semantic_dev.csv" \in Range(files)
            /\ exit_code = 0

(***************************************************************************)
(* C3: a staging temporary directory never outlives the process: its       *)
(* removal is registered before extraction starts, and after exit the      *)
(* directory is gone, whether the run succeeded or failed.                 *)
(***************************************************************************)
C3_TempDirRemoved ==
    /\ tmp = "exists" /\ pc # "register" => TmpDir \in Range(atexit)
    /\ pc = "extract" => TmpDir \in Range(atexit)
    /\ Exited => tmp # "exists"
    /\ Exited /\ is_zipfile(arg_submission)
           /\ fail_at \notin {"dataset", "submission"} => tmp = "removed"

\* an archive was staged, a track then failed with an uncaught error, and
\* the directory is gone after exit
C3_Witness ==
    /\ Exited
    /\ tmp = "removed"
    /\ fail_at \in TrackSet
    /\ exit_code = 1

(***************************************************************************)
(* C4: every input validation error (dataset or submission path missing or *)
(* of the wrong kind, output directory uncreatable) is a ValueError caught *)
(* by the handler of evaluate: one ERROR line, exit code -1, no unhandled  *)
(* error of another class.                                                 *)
(***************************************************************************)
C4_ValidationErrorsUniform ==
    Exited /\ fail_at \in ValidationSteps =>
        /\ IsValueError(exc)
        /\ ErrorLines(stdout) + ErrorLines(stderr) = 1
        /\ ~\E i \in 1..Len(stderr) : HasPrefix(stderr[i], "Traceback")
        /\ exit_code = -1

(***************************************************************************)
(* C5: when the submission path is neither a directory nor a valid         *)
(* archive, no scorer is called, no output file is written, the output     *)
(* directory is not created, and the run exits with a non-zero code.       *)
(***************************************************************************)
C5_BadSubmissionNoOutput ==
    ~(is_dir(arg_submission) \/ CanExtract(arg_submission)) =>
        /\ calls = << >>
        /\ files = << >>
        /\ out_dir # "created"
        /\ pc \notin {"dispatch", "eval", "loop", "write"}
        /\ Exited => exit_code # 0

\* a regular file that is no archive, a valid dataset, an output directory
\* that could have been created: the run has exited with -1
C5_Witness ==
    /\ Exited
    /\ arg_submission = "/work/notes.txt"
    /\ fail_at = "submission"
    /\ out_dir = "creatable"
    /\ no_flags = {}
    /\ exit_code = -1

(***************************************************************************)
(* C6: a track whose skip flag is set is never scored, has no file         *)
(* score_<track>_* written, none of its gold or submission locations (nor  *)
(* meta.yaml, for semantic) read, and is never the cause of a failure, so  *)
(* its sub-trees need not exist.                                           *)
(***************************************************************************)
C6_SkippedTrackUntouched ==
    \A t \in no_flags :
        /\ CallsOf(t) = << >>
        /\ FilesOf(t) = << >>
        /\ \A x \in touched : x.track # t
        /\ fail_at # t
        /\ pc \in {"eval", "loop", "write"} => Tracks[ti] # t

\* semantic is skipped, its sub-trees and the metadata record are absent,
\* and the run of the other tracks is Done with their files written
C6_Witness ==
    /\ Exited
    /\ exit_code = 0
    /\ no_flags = {"semantic"}
    /\ absent = "semantic"
    /\ meta = "missing"
    /\ environ # Unset
    /\ Len(files) = 12

(***************************************************************************)
(* C7: with the semantic track enabled and a metadata record that is       *)
(* missing, malformed or lacks metric or pooling, the run fails before     *)
(* semantic.evaluate is called and before any score_semantic_* file is     *)
(* written (no default is substituted); the lexical files written before   *)
(* stay on disk and syntactic and phonetic never run.                      *)
(***************************************************************************)
C7_MetadataRequired ==
    ("semantic" \notin no_flags /\ meta # "ok") =>
        /\ CallsOf("semantic") = << >>
        /\ FilesOf("semantic") = << >>
        /\ CallsOf("syntactic") = << >> /\ FilesOf("syntactic") = << >>
        /\ CallsOf("phonetic") = << >> /\ FilesOf("phonetic") = << >>
        /\ ti <= 2
        /\ Exited => exit_code # 0
        /\ fail_at = "semantic" =>
               files = IF "lexical" \in no_flags THEN << >>
                       ELSE TrackFiles("lexical", kinds)

\* lexical wrote its six files for dev and test, then the lookup of the
\* missing pooling key ended the run
C7_Witness ==
    /\ Exited
    /\ meta = "no_pooling"
    /\ fail_at = "semantic"
    /\ exc = "KeyError"
    /\ Len(files) = 6
    /\ exit_code = 1

(***************************************************************************)
(* C8: in every terminal state, each track has either all of its output    *)
(* files (all splits, all stratifications) written, or none.               *)
(***************************************************************************)
C8_AllOrNothingPerTrack ==
    Exited =>
        \A t \in TrackSet :
            FilesOf(t) = << >> \/ FilesOf(t) = TrackFiles(t, kinds)

(***************************************************************************)
(* C8, amended: in every terminal state, each track has all of its output  *)
(* files written, or none, or it is the track the run failed in and the    *)
(* files it has written are the first ones of its write order.             *)
(***************************************************************************)
C8_AllOrNothingButFailedTrack ==
    Exited =>
        \A t \in TrackSet :
            \/ FilesOf(t) = << >>
            \/ FilesOf(t) = TrackFiles(t, kinds)
            \/ fail_at = t /\ IsPrefix(FilesOf(t), TrackFiles(t, kinds))

\* lexical wrote the three dev files and one test file, then failed
C8_Witness ==
    /\ Exited
    /\ fail_at = "lexical"
    /\ Len(FilesOf("lexical")) = 4
    /\ Len(TrackFiles("lexical", kinds)) = 6

(***************************************************************************)
(* C9: the files written by a run only grow; once an error is raised       *)
(* nothing more is scored or written and nothing is removed; a ValueError  *)
(* is answered by exactly one ERROR line and exit code -1.                 *)
(***************************************************************************)
C9_AbortKeepsFiles ==
    [][ /\ IsPrefix(files, files')
        /\ pc \in {"raised", "exit", "exited"} =>
               /\ files' = files
               /\ calls' = calls
               /\ touched' = touched
               /\ out_dir' = out_dir
               /\ pc' \in {"exit", "exited"}
        /\ (pc = "raised" /\ IsValueError(exc)) =>
               /\ ErrorLines(stdout') = 1
               /\ exit_code' = -1
        /\ (pc' = "exited" /\ IsValueError(exc')) =>
               /\ ErrorLines(stdout') = 1
               /\ exit_code' = -1
      ]_vars

\* a scorer raised ValueError after files of this run were written
C9_Witness ==
    /\ Exited
    /\ exc = "ValueError"
    /\ fail_at = "syntactic"
    /\ Len(files) > 6
    /\ exit_code = -1

(***************************************************************************)
(* C10: the run ends with no scorer called twice for one (track, split);   *)
(* it exits with code 0 exactly when dataset and submission were           *)
(* validated, the output directory exists and every enabled track was      *)
(* scored for every split with all its tables written; a validation        *)
(* failure gives code -1 and one ERROR line on the error stream.           *)
(***************************************************************************)
FullyDone ==
    /\ is_dir(GoldRoot)
    /\ is_dir(arg_submission) \/ CanExtract(arg_submission)
    /\ out_dir \in {"exists", "created"}
    /\ \A t \in TrackSet \ no_flags :
           /\ [i \in 1..Len(CallsOf(t)) |-> CallsOf(t)[i].kind] = kinds
           /\ \A i \in 1..Len(CallsOf(t)) : CallsOf(t)[i].result = "ok"
           /\ FilesOf(t) = TrackFiles(t, kinds)

NoRetry ==
    \A i, j \in 1..Len(calls) :
        (calls[i].track = calls[j].track /\ calls[i].kind = calls[j].kind)
            => i = j

C10_ExitCodes ==
    /\ NoRetry
    /\ Exited =>
        /\ exit_code = 0 <=> FullyDone
        /\ fail_at \in ValidationSteps =>
               /\ exit_code = -1
               /\ ErrorLines(stderr) = 1

(***************************************************************************)
(* C13: the name of an output file is an injective function of (track,     *)
(* split, stratification): the table about to be written has a name that   *)
(* no other (track, split, stratification) yields, and no run writes two   *)
(* tables to the same file name.                                           *)
(***************************************************************************)
DriverTracks == {"lexical", "semantic", "syntactic"}

\* (track, split, index of the table among those the scorer returns)
NameKeys ==
    {x \in DriverTracks \X {"dev", "test"} \X (1..3) :
        x[3] <= Len(Stratifications(x[1]))}

NameOf(x) == OutputName(x[1], x[2], Stratifications(x[1])[x[3]])

C13_NamesInjective ==
    /\ pc = "write" =>
           LET cur == << Tracks[ti], kinds[ki], si >>
           IN  /\ cur \in NameKeys
               /\ \A b \in NameKeys : NameOf(b) = NameOf(cur) => b = cur
    /\ \A i, j \in 1..Len(files) : files[i] = files[j] => i = j

\* a run over dev and test that wrote all twelve tables of the driver
C13_Witness ==
    /\ Exited
    /\ exit_code = 0
    /\ no_flags = {"phonetic"}
    /\ Len(files) = 12
    /\ Cardinality(Range(files)) = 12

(***************************************************************************)
(* C14: an error raised inside a track evaluator, of ValueError class      *)
(* included, is not caught by the top-level handler: no ERROR line, no     *)
(* exit code -1.                                                           *)
(***************************************************************************)
C14_TrackErrorsUncaught ==
    Exited /\ fail_at \in TrackSet =>
        /\ exit_code # -1
        /\ ErrorLines(stdout) = 0

(***************************************************************************)
(* C14, amended: an error raised inside a track evaluator that is not of   *)
(* ValueError class fails the process outright (traceback, status 1, no    *)
(* ERROR line); one of ValueError class is caught by the same handler as   *)
(* a validation failure: one ERROR line, exit code -1, no traceback.       *)
(***************************************************************************)
C14_TrackErrorsByClass ==
    Exited /\ fail_at \in TrackSet =>
        IF exc \in {"ValueError", "UnicodeDecodeError"}
        THEN /\ exit_code = -1
             /\ ErrorLines(stdout) = 1
             /\ stderr = << >>
        ELSE /\ exit_code = 1
             /\ ErrorLines(stdout) = 0
             /\ stderr = << "Traceback: " \o exc >>

\* lexical.evaluate raised ValueError and the handler answered it
C14_Witness ==
    /\ Exited
    /\ fail_at = "lexical"
    /\ exc = "ValueError"
    /\ Len(calls) = 1
    /\ exit_code = -1

(***************************************************************************)
(* C15: the gold root is checked before anything else: before the          *)
(* submission is resolved or staged, before the output directory is        *)
(* created and before any scorer is called; when the check fails no        *)
(* temporary directory exists, no teardown is registered, no file written. *)
(***************************************************************************)
NothingDone ==
    /\ tmp = "none"
    /\ atexit = << >>
    /\ out_dir # "created"
    /\ calls = << >>
    /\ files = << >>
    /\ submission = [path |-> arg_submission, type |-> "Path"]
    /\ \A x \in touched : x.root = GoldRoot

C15_DatasetFirst ==
    /\ pc \in {"start", "check_dataset"} => NothingDone /\ touched = {}
    /\ ~NothingDone =>
           /\ is_dir(GoldRoot)
           /\ Touch(GoldRoot, "none", Resolve(GoldRoot)) \in touched
           /\ dataset = Resolve(GoldRoot)
    /\ fail_at = "dataset" => NothingDone

\* the gold root is a regular file; the submission is an archive and the
\* output directory is yet to be made: the run ended with neither touched
C15_Witness ==
    /\ Exited
    /\ fail_at = "dataset"
    /\ exc = "ValueError"
    /\ is_zipfile(arg_submission)
    /\ out_dir = "creatable"

(***************************************************************************)
(* C17: for every track, phonetic included, two calls of the scorer for    *)
(* different splits differ both in the gold location and in the            *)
(* submission location they are given.                                     *)
(***************************************************************************)
C17_UniformContract ==
    \A i, j \in 1..Len(calls) :
        (calls[i].track = calls[j].track /\ calls[i].kind # calls[j].kind) =>
            /\ Range(calls[i].gold) \cap Range(calls[j].gold) = {}
            /\ calls[i].sub # calls[j].sub

(***************************************************************************)
(* C17, amended: for lexical, semantic and syntactic, two calls for        *)
(* different splits differ both in gold and in submission location; for    *)
(* phonetic they differ in the submission location only: the gold          *)
(* location is the one abx_features directory of the gold root.            *)
(***************************************************************************)
C17_ContractButPhoneticGold ==
    \A i, j \in 1..Len(calls) :
        (calls[i].track = calls[j].track /\ calls[i].kind # calls[j].kind) =>
            /\ calls[i].sub # calls[j].sub
            /\ IF calls[i].track = "phonetic"
               THEN /\ calls[i].gold = calls[j].gold
                    /\ calls[i].gold =
                         << Resolve(GoldRoot) \o "/phonetic/abx_features" >>
               ELSE Range(calls[i].gold) \cap Range(calls[j].gold) = {}

\* every track was scored for dev and for test
C17_Witness ==
    /\ Len(calls) = 8
    /\ calls[7].track = "phonetic" /\ calls[7].kind = "dev"
    /\ calls[8].track = "phonetic" /\ calls[8].kind = "test"
    /\ calls[1].track = "lexical" /\ calls[2].track = "lexical"

(***************************************************************************)
(* C11: a second run with the same dataset, submission, environment and    *)
(* flags, the scorers being deterministic, writes the same file names in   *)
(* the same order with the same contents as the first; each file it finds  *)
(* from the first run is replaced, not appended to, so the output          *)
(* directory is left as the first run left it.                             *)
(***************************************************************************)
C11_RerunSameOutput ==
    /\ \A e \in disk : Len(e.content) = 1
    /\ \A e, f \in disk : e.path = f.path => e = f
    /\ {e.path : e \in disk} = {OutputPath(files[i]) : i \in 1..Len(files)}
           \cup (IF prev = NoRun THEN {} ELSE {e.path : e \in prev.disk})
    /\ (run > 1 /\ Exited) =>
           /\ files = prev.files
           /\ disk = prev.disk
           /\ exit_code = prev.exit_code

\* the second run found the fourteen files of the first and wrote them again
C11_Witness ==
    /\ run = 2
    /\ Exited
    /\ exit_code = 0
    /\ Len(files) = 14
    /\ Cardinality(disk) = 14

(***************************************************************************)
(* C12: the enabled tracks are scored in the order lexical, semantic,      *)
(* syntactic, phonetic, the splits of a track in the order dev, test, each *)
(* (track, split) at most once and, in a run that ends Done, exactly once; *)
(* meta.yaml is opened at most once, before the first semantic call; all   *)
(* the files of a (track, split) are written before the next call.         *)
(***************************************************************************)
SplitList == IF environ # Unset THEN << "dev", "test" >> ELSE << "dev" >>

RECURSIVE CallPlan(_)
\* the (track, split) pairs of the tracks ts, in order
CallPlan(ts) ==
    IF ts = << >> THEN << >>
    ELSE (IF Head(ts) \in no_flags THEN << >>
          ELSE [i \in 1..Len(SplitList) |-> << Head(ts), SplitList[i] >>])
         \o CallPlan(Tail(ts))

RECURSIVE FilesOfCalls(_)
\* the files written for the calls cs, had each returned and been written
FilesOfCalls(cs) ==
    IF cs = << >> THEN << >>
    ELSE TrackFiles(Head(cs).track, << Head(cs).kind >>)
         \o FilesOfCalls(Tail(cs))

C12_FixedOrder ==
    LET keys == [i \in 1..Len(calls) |-> << calls[i].track, calls[i].kind >>]
        plan == CallPlan(<< "lexical", "semantic", "syntactic", "phonetic" >>)
        n    == Len(calls)
    IN  /\ IsPrefix(keys, plan)
        /\ \A i \in 1..(n - 1) : calls[i].result = "ok"
        /\ n > 0 => /\ IsPrefix(FilesOfCalls(SubSeq(calls, 1, n - 1)), files)
                    /\ IsPrefix(files, FilesOfCalls(calls))
        /\ n = 0 => files = << >>
        /\ pc = "loop" => files = FilesOfCalls(calls)
        /\ meta_reads <= 1
        /\ CallsOf("semantic") # << >> => meta_reads = 1
        /\ meta_reads = 1 =>
               /\ "semantic" \notin no_flags
               /\ CallsOf("syntactic") = << >> \/ CallsOf("semantic") # << >>
        /\ (Exited /\ exit_code = 0) =>
               /\ keys = plan
               /\ files = FilesOfCalls(calls)
               /\ "semantic" \notin no_flags => meta_reads = 1

\* all four tracks were scored for dev and test and the run is Done
C12_Witness ==
    /\ Exited
    /\ exit_code = 0
    /\ no_flags = {}
    /\ Len(calls) = 8
    /\ meta_reads = 1
    /\ Len(files) = 14

(***************************************************************************)
(* C16: for a submission that is a directory, no temporary directory is    *)
(* made and no teardown registered, the scorers are given locations in     *)
(* that same directory, nothing is removed at exit, and the driver writes  *)
(* nothing under the gold root or the submission directory.                *)
(***************************************************************************)
Under(path, root) == HasPrefix(path, Resolve(root) \o "/")

\* where the driver's i-th write of this run went
WrittenAt(i) == Resolve(arg_output) \o "/" \o files[i]

StagingUntouched ==
    /\ tmp = "none"
    /\ atexit = << >>
    /\ submission.type = "Path"
    /\ Resolve(submission.path) = Resolve(arg_submission)
    /\ pc \in {"dispatch", "eval", "loop", "write"} =>
           submission.path = Resolve(arg_submission)
    /\ \A i \in 1..Len(calls) : Under(calls[i].sub, arg_submission)

====
